---------------------------- MODULE Spec2Model ----------------------------
(***************************************************************************)
(* A model of file_dashboard.py: the organize / backup / rollback /        *)
(* quarantine operations on a small file system.                           *)
(*                                                                         *)
(* A name is a sequence of one-character strings, a path a sequence of     *)
(* names, a tree a function from the paths that exist (relative to the     *)
(* tree's top, <<>>) to entries.  A tree with an empty domain is a folder  *)
(* that does not exist.                                                    *)
(***************************************************************************)
EXTENDS Integers, Sequences, FiniteSets, TLC

VARIABLES fs,      \* [Folders -> tree]: the folders the user can select
          bk,      \* BACKUP_ROOT: snapshot name -> tree
          clock,   \* seconds since StartOfDay, read by datetime.now()
          steps,   \* operations performed so far
          last,    \* what the last operation was given, did and returned
          rt,      \* the snapshot whose round trip is being followed
          quarantined,  \* per folder, the destinations its scans have returned
          descending    \* the order in which the file system lists a directory

vars == <<fs, bk, clock, steps, last, rt, quarantined, descending>>

---------------------------------------------------------------------------
(* Characters and strings                                                  *)

Lower == <<"a","b","c","d","e","f","g","h","i","j","k","l","m",
           "n","o","p","q","r","s","t","u","v","w","x","y","z">>
Upper == <<"A","B","C","D","E","F","G","H","I","J","K","L","M",
           "N","O","P","Q","R","S","T","U","V","W","X","Y","Z">>
Digits == <<"0","1","2","3","4","5","6","7","8","9">>

\* the characters of the model in code-point order
Chars == <<" ", "-", ".", "/">> \o Digits \o Upper \o <<"_">> \o Lower

Range(s) == {s[i] : i \in 1..Len(s)}
IndexIn(s, c) == CHOOSE i \in 1..Len(s) : s[i] = c
CodeOf == [c \in Range(Chars) |-> IndexIn(Chars, c)]
Code(c) == CodeOf[c]

\* str.isalnum, str.upper, str.lower, one character at a time
IsAlnum(c) == c \in Range(Lower) \cup Range(Upper) \cup Range(Digits)
UpperChar(c) == IF c \in Range(Lower) THEN Upper[IndexIn(Lower, c)] ELSE c
LowerChar(c) == IF c \in Range(Upper) THEN Lower[IndexIn(Upper, c)] ELSE c
StrUpper(s) == [i \in 1..Len(s) |-> UpperChar(s[i])]
StrLower(s) == [i \in 1..Len(s) |-> LowerChar(s[i])]

\* s[i:] and s[:i] with Python's 0-based index i
From(s, i) == SubSeq(s, i + 1, Len(s))
Upto(s, i) == SubSeq(s, 1, i)

\* str.rfind: the 0-based index of the last c in s, -1 when there is none
RFind(s, c) ==
  LET at == {i \in 1..Len(s) : s[i] = c}
  IN IF at = {} THEN -1 ELSE (CHOOSE i \in at : \A j \in at : j <= i) - 1

CountChar(s, c) == Cardinality({i \in 1..Len(s) : s[i] = c})
StartsWith(s, pre) == Len(s) >= Len(pre) /\ SubSeq(s, 1, Len(pre)) = pre

\* "sub in s" on strings
Contains(s, sub) ==
  \E i \in 0..(Len(s) - Len(sub)) : SubSeq(s, i + 1, i + Len(sub)) = sub

\* str.lstrip(".")
RECURSIVE LStripDots(_)
LStripDots(s) ==
  IF s # <<>> /\ Head(s) = "." THEN LStripDots(Tail(s)) ELSE s

\* lexicographic order of strings by code point
RECURSIVE StrLess(_, _)
StrLess(a, b) ==
  IF a = <<>> THEN b # <<>>
  ELSE IF b = <<>> THEN FALSE
  ELSE IF a[1] = b[1] THEN StrLess(Tail(a), Tail(b))
  ELSE Code(a[1]) < Code(b[1])

\* a two-digit and a four-digit decimal field of strftime
Pad2(n) == <<Digits[((n \div 10) % 10) + 1], Digits[(n % 10) + 1]>>
Pad4(n) == Pad2(n \div 100) \o Pad2(n % 100)

safe_name(s) ==
  [i \in 1..Len(s) |-> IF IsAlnum(s[i]) \/ s[i] \in {"-", "_", "."} THEN s[i] ELSE "_"]

\* os.path.splitext(name)[1]: the extension with its dot; leading dots start no extension
SplitExt(name) ==
  LET dot == RFind(name, ".")
  IN IF dot > 0 /\ \E i \in 1..dot : name[i] # "." THEN From(name, dot) ELSE <<>>

\* pathlib's PurePath.suffix and PurePath.stem
Suffix(name) ==
  LET i == RFind(name, ".")
  IN IF 0 < i /\ i < Len(name) - 1 THEN From(name, i) ELSE <<>>
Stem(name) ==
  LET i == RFind(name, ".")
  IN IF 0 < i /\ i < Len(name) - 1 THEN Upto(name, i) ELSE name

---------------------------------------------------------------------------
(* Trees: the file system below one directory                              *)

DirEntry == [kind |-> "dir", data |-> 0, size |-> 0, mtime |-> 0]
FileEntry(d, s, m) == [kind |-> "file", data |-> d, size |-> s, mtime |-> m]

\* a folder that does not exist
NoTree == [p \in {} |-> DirEntry]

Exists(t, p) == p \in DOMAIN t
IsDir(t, p) == p \in DOMAIN t /\ t[p].kind = "dir"
IsFile(t, p) == p \in DOMAIN t /\ t[p].kind = "file"

Parent(p) == SubSeq(p, 1, Len(p) - 1)
Basename(p) == p[Len(p)]
Prefixes(p) == {SubSeq(p, 1, i) : i \in 0..Len(p)}
\* q is p or lies below p
IsUnder(q, p) == Len(q) >= Len(p) /\ SubSeq(q, 1, Len(p)) = p

ChildNames(t, p) ==
  {Basename(q) : q \in {r \in DOMAIN t : Len(r) = Len(p) + 1 /\ IsUnder(r, p)}}
DirNames(t, p) == {n \in ChildNames(t, p) : IsDir(t, Append(p, n))}
FileNames(t, p) == {n \in ChildNames(t, p) : IsFile(t, Append(p, n))}
FilePaths(t) == {p \in DOMAIN t : t[p].kind = "file"}

Put(t, p, e) == [q \in DOMAIN t \cup {p} |-> IF q = p THEN e ELSE t[q]]
\* os.remove of a file, shutil.rmtree of a directory
Remove(t, p) == [q \in {r \in DOMAIN t : ~IsUnder(r, p)} |-> t[q]]

\* os.makedirs(p, exist_ok=True) raises when p or one of its ancestors is a file
makedirs_ok(t, p) == \A q \in Prefixes(p) : ~IsFile(t, q)
makedirs(t, p) ==
  [q \in DOMAIN t \cup Prefixes(p) |-> IF q \in DOMAIN t THEN t[q] ELSE DirEntry]

\* shutil.move(src, dst) of a file: into dst when dst is a directory (an Error when
\* dst/basename exists), else os.rename, which replaces an existing file
\* (where rename refuses, shutil.move copies over dst and unlinks src: the same tree)
ShutilMove(t, src, dst) ==
  LET into == IsDir(t, dst)
      real == IF into THEN Append(dst, Basename(src)) ELSE dst
  IN IF (into /\ Exists(t, real)) \/ ~IsDir(t, Parent(real))
     THEN [ok |-> FALSE, tree |-> t, src |-> src, dst |-> real, replaced |-> FALSE]
     ELSE [ok |-> TRUE, tree |-> Put(Remove(t, src), real, t[src]),
           src |-> src, dst |-> real, replaced |-> IsFile(t, real)]

\* shutil.copy2(src, dst) of the file entry e named b: into dst when dst is a directory
Copy2(t, e, b, dst) ==
  LET real == IF IsDir(t, dst) THEN Append(dst, b) ELSE dst
  IN IF IsDir(t, real) \/ ~IsDir(t, Parent(real))
     THEN [ok |-> FALSE, tree |-> t]
     ELSE [ok |-> TRUE, tree |-> Put(t, real, e)]

\* The order in which a directory lists its entries (os.listdir, os.scandir)
\* is the file system's: it is not known, and it does not change from one
\* listing to the next.  The model's file system lists every directory in
\* ascending or in descending order of the names (rev).
RECURSIVE SortNames(_, _)
SortNames(S, rev) ==
  IF S = {} THEN <<>>
  ELSE LET first == CHOOSE x \in S : \A y \in S \ {x} :
                       IF rev THEN StrLess(y, x) ELSE StrLess(x, y)
       IN <<first>> \o SortNames(S \ {first}, rev)

\* os.walk(top), top-down: the directories in the order they are yielded
RECURSIVE Walk(_, _, _)
RECURSIVE WalkAll(_, _, _, _)
Walk(t, p, rev) ==
  IF ~IsDir(t, p) THEN <<>>
  ELSE <<p>> \o WalkAll(t, p, SortNames(DirNames(t, p), rev), rev)
WalkAll(t, p, names, rev) ==
  IF names = <<>> THEN <<>>
  ELSE Walk(t, Append(p, Head(names)), rev) \o WalkAll(t, p, Tail(names), rev)

\* the entries a walk hands to its loop body: per directory yielded, its
\* subdirectories ("for d in dirs") and then its files ("for f in files")
RECURSIVE EntriesOf(_, _, _)
EntriesOf(t, roots, rev) ==
  IF roots = <<>> THEN <<>>
  ELSE LET r == Head(roots)
           ds == SortNames(DirNames(t, r), rev)
           fl == SortNames(FileNames(t, r), rev)
       IN [i \in 1..Len(ds) |-> Append(r, ds[i])] \o
          [i \in 1..Len(fl) |-> Append(r, fl[i])] \o
          EntriesOf(t, Tail(roots), rev)
WalkEntries(t, rev) == EntriesOf(t, Walk(t, <<>>, rev), rev)

\* os.listdir(folder)
listdir(t, rev) == SortNames(ChildNames(t, <<>>), rev)

---------------------------------------------------------------------------
(* Organization operations                                                 *)

UnknownBucket == <<"U","N","K","N","O","W","N">>
SmallBucket == <<"S","m","a","l","l","_","0","-","1","0","M","B">>
MediumBucket == <<"M","e","d","i","u","m","_","1","0","-","1","0","0","M","B">>
LargeBucket == <<"L","a","r","g","e","_","1","0","0","M","B","_","p","l","u","s">>
SmallLimit == 10000000
MediumLimit == 100000000

\* the bucket of a top-level file: the name of its destination subfolder
ExtBucket(item) ==
  LET ext == StrUpper(LStripDots(SplitExt(item)))
  IN safe_name(IF ext = <<>> THEN UnknownBucket ELSE ext)
\* mtime counts months: strftime("%Y-%m")
DateBucket(e) == Pad4(e.mtime \div 12) \o <<"-">> \o Pad2((e.mtime % 12) + 1)
\* a variant of SizeBucket whose limits belong to the smaller bucket
SizeBucketInclusive(e) ==
  IF e.size <= SmallLimit THEN SmallBucket
  ELSE IF e.size <= MediumLimit THEN MediumBucket
  ELSE LargeBucket
SizeBucket(e) ==
  IF e.size < SmallLimit THEN SmallBucket
  ELSE IF e.size < MediumLimit THEN MediumBucket
  ELSE LargeBucket
BucketOf(mode, item, e) ==
  CASE mode = "ext" -> ExtBucket(item)
    [] mode = "date" -> DateBucket(e)
    [] mode = "size" -> SizeBucket(e)

\* a variant of OrganizeFrom without the os.path.isfile test: directories
\* are moved into buckets as well
RECURSIVE OrganizeAnyEntry(_, _, _, _)
OrganizeAnyEntry(st, order, i, mode) ==
  IF i > Len(order) \/ st.raised THEN st
  ELSE LET item == order[i]
           p == <<item>>
           dest == <<BucketOf(mode, item, st.tree[p])>>
       IN IF ~Exists(st.tree, p) \/ dest = p THEN OrganizeAnyEntry(st, order, i + 1, mode)
          ELSE IF ~makedirs_ok(st.tree, dest) THEN [st EXCEPT !.raised = TRUE]
          ELSE LET mv == ShutilMove(makedirs(st.tree, dest), p, Append(dest, item))
               IN OrganizeAnyEntry([tree |-> mv.tree, raised |-> FALSE,
                                    moves |-> IF mv.ok THEN Append(st.moves, mv) ELSE st.moves,
                                    failed |-> IF mv.ok THEN st.failed ELSE st.failed \cup {item}],
                                   order, i + 1, mode)

\* The loop of the three organize functions over the listing `order`, from its
\* i-th item on.  os.makedirs stands outside the try: when it raises, the
\* function ends there with the exception.  A shutil.move that raises is passed over.
RECURSIVE OrganizeFrom(_, _, _, _)
OrganizeFrom(st, order, i, mode) ==
  IF i > Len(order) \/ st.raised THEN st
  ELSE LET item == order[i]
           p == <<item>>
           dest == <<BucketOf(mode, item, st.tree[p])>>
       IN IF ~IsFile(st.tree, p) THEN OrganizeFrom(st, order, i + 1, mode)
          ELSE IF ~makedirs_ok(st.tree, dest) THEN [st EXCEPT !.raised = TRUE]
          ELSE LET mv == ShutilMove(makedirs(st.tree, dest), p, Append(dest, item))
               IN OrganizeFrom([tree |-> mv.tree, raised |-> FALSE,
                                moves |-> IF mv.ok THEN Append(st.moves, mv) ELSE st.moves,
                                failed |-> IF mv.ok THEN st.failed ELSE st.failed \cup {item}],
                               order, i + 1, mode)

\* a variant of Organize that stops after the first entry of the listing
OrganizeFirstEntry(t, order, mode) ==
  IF ~IsDir(t, <<>>) THEN [tree |-> t, raised |-> TRUE, moves |-> <<>>, failed |-> {}]
  ELSE OrganizeFrom([tree |-> t, raised |-> FALSE, moves |-> <<>>, failed |-> {}],
                    SubSeq(order, 1, 1), 1, mode)

\* os.listdir of a folder that does not exist raises
Organize(t, order, mode) ==
  IF ~IsDir(t, <<>>) THEN [tree |-> t, raised |-> TRUE, moves |-> <<>>, failed |-> {}]
  ELSE OrganizeFrom([tree |-> t, raised |-> FALSE, moves |-> <<>>, failed |-> {}], order, 1, mode)

organize_by_extension(t, order) == Organize(t, order, "ext")
organize_by_date(t, order) == Organize(t, order, "date")
organize_by_size(t, order) == Organize(t, order, "size")

---------------------------------------------------------------------------
(* Backup and rollback                                                     *)

\* datetime.now().strftime("%Y%m%d_%H%M%S"); the clock counts the seconds of
\* 1 January 2024 from 00:59:58 on
Timestamp(c) ==
  LET sec == 3598 + c
  IN Pad4(2024) \o Pad2(1) \o Pad2(1) \o <<"_">> \o
     Pad2(sec \div 3600) \o Pad2((sec \div 60) % 60) \o Pad2(sec % 60)

\* the name of the snapshot directory under BACKUP_ROOT
BackupName(folder, c) == safe_name(Basename(folder)) \o <<"_">> \o Timestamp(c)

\* The body of the two restoring walks, from the i-th entry on: a directory is
\* made with os.makedirs (outside any try), a file has its parent made
\* (outside the try) and is copied with shutil.copy2 (inside it); rollback
\* first removes what stands at the destination.
RECURSIVE CopyEntries(_, _, _, _, _)
CopyEntries(src, st, entries, i, replace) ==
  IF i > Len(entries) \/ st.raised THEN st
  ELSE LET p == entries[i]
           t == st.tree
       IN IF IsDir(src, p)
          THEN IF makedirs_ok(t, p)
               THEN CopyEntries(src, [st EXCEPT !.tree = makedirs(t, p)], entries, i + 1, replace)
               ELSE [st EXCEPT !.raised = TRUE]
          ELSE IF ~makedirs_ok(t, Parent(p)) THEN [st EXCEPT !.raised = TRUE]
          ELSE LET t1 == makedirs(t, Parent(p))
                   t2 == IF replace /\ Exists(t1, p) THEN Remove(t1, p) ELSE t1
                   cp == Copy2(t2, src[p], Basename(p), p)
               IN CopyEntries(src, [tree |-> cp.tree, raised |-> FALSE,
                                    skipped |-> IF cp.ok THEN st.skipped ELSE st.skipped \cup {p}],
                              entries, i + 1, replace)

\* create_backup(folder) at clock c: shutil.copytree refuses a source that does not
\* exist and a destination that exists; the fall-back walks the folder
create_backup(b, t, folder, c, rev) ==
  LET name == BackupName(folder, c)
  IN IF IsDir(t, <<>>) /\ name \notin DOMAIN b
     THEN [bk |-> Put(b, name, t), raised |-> FALSE, ret |-> name, fallback |-> FALSE, skipped |-> {}]
     ELSE LET s0 == IF name \in DOMAIN b THEN b[name] ELSE makedirs(NoTree, <<>>)
              r == CopyEntries(t, [tree |-> s0, raised |-> FALSE, skipped |-> {}],
                               WalkEntries(t, rev), 1, FALSE)
          IN [bk |-> Put(b, name, r.tree), raised |-> r.raised, ret |-> name,
              fallback |-> TRUE, skipped |-> r.skipped]

\* a variant of rollback_from_backup that does not remove what stands at a destination
rollback_keeping_destination(b, t, name, rev) ==
  IF name \notin DOMAIN b
  THEN [tree |-> t, raised |-> FALSE, ret |-> FALSE, skipped |-> {}]
  ELSE LET r == CopyEntries(b[name], [tree |-> t, raised |-> FALSE, skipped |-> {}],
                            WalkEntries(b[name], rev), 1, FALSE)
       IN [tree |-> r.tree, raised |-> r.raised, ret |-> TRUE, skipped |-> r.skipped]

\* rollback_from_backup(folder, backup_path): b is BACKUP_ROOT, t the folder's tree
rollback_from_backup(b, t, name, rev) ==
  IF name \notin DOMAIN b
  THEN [tree |-> t, raised |-> FALSE, ret |-> FALSE, skipped |-> {}]
  ELSE LET r == CopyEntries(b[name], [tree |-> t, raised |-> FALSE, skipped |-> {}],
                            WalkEntries(b[name], rev), 1, TRUE)
       IN [tree |-> r.tree, raised |-> r.raised, ret |-> TRUE, skipped |-> r.skipped]

---------------------------------------------------------------------------
(* Scanner and quarantine                                                  *)

QuarantineName == <<"_","q","u","a","r","a","n","t","i","n","e">>
BackupRootName == <<"f","i","l","e","_","o","r","g","a","n","i","z","e","r","_","b","a","c","k","u","p","s">>
suspicious_exts == {<<".","e","x","e">>, <<".","b","a","t">>, <<".","v","b","s">>, <<".","j","s">>, <<".","s","c","r">>, <<".","c","m","d">>, <<".","d","l","l">>, <<".","c","o","m">>, <<".","p","i","f">>}
HugeSize == 524288000

\* a variant of is_suspicious that compares the extension as it is written
is_suspicious_exact(name, e) ==
  LET ext == Suffix(name)
  IN \/ ext \in suspicious_exts
     \/ StartsWith(name, <<".">>)
     \/ e.size > HugeSize

is_suspicious(name, e) ==
  LET ext == StrLower(Suffix(name))
  IN \/ ext \in suspicious_exts
     \/ CountChar(name, ".") > 1 /\ ext \in suspicious_exts
     \/ StartsWith(name, <<".">>)
     \/ e.size > HugeSize

\* str(i) of a natural number
RECURSIVE IntStr(_)
IntStr(i) == IF i < 10 THEN <<Digits[i + 1]>> ELSE IntStr(i \div 10) \o <<Digits[(i % 10) + 1]>>

\* a variant of FreeDest with an "if dest.exists()" in place of the loop
FirstRetry(t, name, i) ==
  IF ~Exists(t, <<QuarantineName, name>>) THEN name
  ELSE Stem(name) \o <<"_">> \o IntStr(i) \o Suffix(name)

\* a variant of NextCandidate that leaves the counter out of the name
SameCandidate(name, i) == Stem(name) \o Suffix(name)

\* the body of the loop: the next candidate is built from the current
\* candidate's stem and suffix
NextCandidate(name, i) == Stem(name) \o <<"_">> \o IntStr(i) \o Suffix(name)

\* the "while dest.exists()" loop
RECURSIVE FreeDest(_, _, _)
FreeDest(t, name, i) ==
  IF ~Exists(t, <<QuarantineName, name>>) THEN name
  ELSE FreeDest(t, NextCandidate(name, i), i + 1)

\* os.path.join(folder, ...) as a string: the root the walk yields
RECURSIVE JoinPath(_)
JoinPath(p) == IF p = <<>> THEN <<>> ELSE <<"/">> \o Head(p) \o JoinPath(Tail(p))

\* a variant of Skipped that passes over the backups only
SkippedBackupsOnly(folder, root) == Contains(JoinPath(folder \o root), BackupRootName)

Skipped(folder, root) ==
  LET str == JoinPath(folder \o root)
  IN Contains(str, QuarantineName) \/ Contains(str, BackupRootName)

\* a variant of ScanFiles that looks at the files of the folder itself only
ScanTopLevel(t, folder, roots, rev) ==
  LET fl == SortNames(FileNames(t, <<>>), rev)
  IN [i \in 1..Len(fl) |-> <<fl[i]>>]

\* the files the walk of scan_and_quarantine looks at, in its order
RECURSIVE ScanFiles(_, _, _, _)
ScanFiles(t, folder, roots, rev) ==
  IF roots = <<>> THEN <<>>
  ELSE LET r == Head(roots)
           fl == SortNames(FileNames(t, r), rev)
       IN (IF Skipped(folder, r) THEN <<>> ELSE [i \in 1..Len(fl) |-> Append(r, fl[i])])
          \o ScanFiles(t, folder, Tail(roots), rev)

RECURSIVE ScanFrom(_, _, _)
ScanFrom(st, files, i) ==
  IF i > Len(files) THEN st
  ELSE LET p == files[i]
           t == st.tree
       IN IF ~(IsFile(t, p) /\ is_suspicious(Basename(p), t[p])) THEN ScanFrom(st, files, i + 1)
          ELSE LET dest == <<QuarantineName, FreeDest(t, Basename(p), 1)>>
                   mv == ShutilMove(t, p, dest)
               IN ScanFrom([tree |-> mv.tree, raised |-> FALSE,
                            moves |-> IF mv.ok THEN Append(st.moves, mv) ELSE st.moves,
                            existed |-> st.existed \/ Exists(t, mv.dst)],
                           files, i + 1)

\* scan_and_quarantine(folder): os.makedirs of the quarantine stands outside the try
scan_and_quarantine(t, folder, rev) ==
  IF ~makedirs_ok(t, <<QuarantineName>>)
  THEN [tree |-> t, raised |-> TRUE, moves |-> <<>>, existed |-> FALSE]
  ELSE LET t1 == makedirs(t, <<QuarantineName>>)
       IN ScanFrom([tree |-> t1, raised |-> FALSE, moves |-> <<>>, existed |-> FALSE],
                   ScanFiles(t1, folder, Walk(t1, <<>>, rev), rev), 1)

---------------------------------------------------------------------------
(* The scan report                                                         *)

\* a variant of ReportStatus that tests the leading dot first
ReportStatusHiddenFirst(f) ==
  LET ext == StrLower(SplitExt(f))
      s1 == IF StartsWith(f, <<".">>) THEN "Hidden" ELSE "Clean"
      s2 == IF ext \in suspicious_exts THEN "Suspicious" ELSE s1
  IN IF CountChar(f, ".") > 1 /\ ext \in suspicious_exts THEN "Dangerous" ELSE s2

\* the status local_scan_report gives the file named f: three "if"s in a row,
\* each overwriting the status set before
ReportStatus(f) ==
  LET ext == StrLower(SplitExt(f))
      s1 == IF ext \in suspicious_exts THEN "Suspicious" ELSE "Clean"
      s2 == IF CountChar(f, ".") > 1 /\ ext \in suspicious_exts THEN "Dangerous" ELSE s1
  IN IF StartsWith(f, <<".">>) THEN "Hidden" ELSE s2

\* local_scan_report(folder): one row per file of the walk, outside the
\* skipped directories
local_scan_report(t, folder, rev) ==
  LET files == ScanFiles(t, folder, Walk(t, <<>>, rev), rev)
  IN [i \in 1..Len(files) |->
        [name |-> Basename(files[i]), path |-> files[i],
         ext |-> StrLower(SplitExt(Basename(files[i]))),
         status |-> ReportStatus(Basename(files[i]))]]

---------------------------------------------------------------------------
(* The File Organization page: the three organize buttons                  *)

\* a variant of OrganizeClick that organizes first and takes the backup afterwards
OrganizeThenBackup(b, t, folder, c, order, rev, mode) ==
  LET og == Organize(t, order, mode)
      cb == create_backup(b, og.tree, folder, c, rev)
      moved == [i \in 1..Len(og.moves) |->
                  [ev |-> "move", folder |-> folder, path |-> og.moves[i].src,
                   returned |-> TRUE]]
  IN IF og.raised
     THEN [bk |-> b, tree |-> og.tree, events |-> moved, moves |-> og.moves,
           backup |-> <<>>, fallback |-> FALSE, message |-> "exception"]
     ELSE [bk |-> cb.bk, tree |-> og.tree,
           events |-> Append(moved, [ev |-> "create_backup", folder |-> folder,
                                     path |-> cb.ret, returned |-> ~cb.raised]),
           moves |-> og.moves, backup |-> cb.ret, fallback |-> cb.fallback,
           message |-> IF cb.raised THEN "exception" ELSE "success"]

\* One click on an organize button with an existing folder selected:
\* create_backup, then the organize function.  An exception of either ends the
\* script run.  events lists, in the order they are made, the calls and the moves.
OrganizeClick(b, t, folder, c, order, rev, mode) ==
  LET cb == create_backup(b, t, folder, c, rev)
      og == Organize(t, order, mode)
      called == <<[ev |-> "create_backup", folder |-> folder, path |-> cb.ret,
                   returned |-> ~cb.raised]>>
  IN IF cb.raised
     THEN [bk |-> cb.bk, tree |-> t, events |-> called, moves |-> <<>>,
           backup |-> cb.ret, fallback |-> cb.fallback, message |-> "exception"]
     ELSE [bk |-> cb.bk, tree |-> og.tree,
           events |-> called \o
                      [i \in 1..Len(og.moves) |->
                         [ev |-> "move", folder |-> folder, path |-> og.moves[i].src,
                          returned |-> TRUE]],
           moves |-> og.moves, backup |-> cb.ret, fallback |-> cb.fallback,
           message |-> IF og.raised THEN "exception" ELSE "success"]

---------------------------------------------------------------------------
(* The File Organization page: the Rollback button                         *)

\* BACKUP_ROOT.glob(safe_name(Path(selected_folder).name) + "_*")
Glob(b, folder) ==
  {name \in DOMAIN b : StartsWith(name, safe_name(Basename(folder)) \o <<"_">>)}
\* sorted(..., reverse=True) of the paths found
ListBackups(b, folder) == SortNames(Glob(b, folder), TRUE)

\* One run of the script through "if rollback_btn:".  A button reads True only
\* in the run its own click started: rollback_btn in the run a click on
\* "Rollback" started, confirm_btn in the run a click on "Confirm Rollback"
\* started.  The selectbox holds its first option.  offered tells whether the
\* run has drawn the "Confirm Rollback" button.
RollbackHandler(b, t, folder, rollback_btn, confirm_btn, rev) ==
  LET none == [tree |-> t, events |-> <<>>, backups |-> <<>>, offered |-> FALSE,
               message |-> "none"]
  IN IF ~rollback_btn THEN none
     ELSE IF ~Exists(t, <<>>) THEN [none EXCEPT !.message = "error"]
     ELSE LET backups == ListBackups(b, folder)
          IN IF backups = <<>> THEN [none EXCEPT !.message = "warning"]
             ELSE IF ~confirm_btn
             THEN [none EXCEPT !.backups = backups, !.offered = TRUE]
             ELSE LET chosen == backups[1]
                      r == rollback_from_backup(b, t, chosen, rev)
                  IN [tree |-> r.tree,
                      events |-> <<[ev |-> "rollback_from_backup", folder |-> folder,
                                    path |-> chosen, returned |-> ~r.raised]>>,
                      backups |-> backups, offered |-> TRUE,
                      message |-> IF r.raised THEN "exception"
                                  ELSE IF r.ret THEN "success" ELSE "failure"]

---------------------------------------------------------------------------
(* The state machine                                                       *)

\* bounds of the model
MaxClock == 1
MaxSteps == 2
MaxRuns == 2
MaxScans == 2
MaxEdits == 2
MaxClicks == 2

\* the folders the user can select: /x/d 1 and /y/d_1, both with safe name d_1
FolderA == <<<<"x">>, <<"d"," ","1">>>>
FolderB == <<<<"y">>, <<"d","_","1">>>>
Folders == {FolderA, FolderB}

\* a backup path that does not exist
MissingSnap == <<"g","o","n","e">>

\* file and directory names of the initial trees
A_txt == <<"a",".","t","x","t">>
B_exe == <<"b",".","e","x","e">>
Hidden == <<".","h","i","d","d","e","n">>
TXT == <<"T","X","T">>
D == <<"d">>
Sub == <<"s","u","b">>

\* modification times, in months: January and February 2024
Jan == 2024 * 12
Feb == 2024 * 12 + 1

\* the tree holding the files of S (records [path, e]) and the directories above them
TreeOf(S) ==
  [p \in UNION {Prefixes(x.path) : x \in S} |->
     IF \E x \in S : x.path = p THEN (CHOOSE x \in S : x.path = p).e ELSE DirEntry]
File(p, d, size, m) == [path |-> p, e |-> FileEntry(d, size, m)]

\* a.txt, b.exe and .hidden
TreeMixed == TreeOf({File(<<A_txt>>, 1, 100, Jan), File(<<B_exe>>, 2, 100, Feb),
                     File(<<Hidden>>, 3, 100, Jan)})
\* a file named like the bucket of a.txt
TreeBucketFile == TreeOf({File(<<TXT>>, 1, SmallLimit, Jan), File(<<A_txt>>, 2, 100, Feb)})
\* a.txt beside a bucket that already holds an a.txt
TreeCollide == TreeOf({File(<<A_txt>>, 1, MediumLimit, Jan), File(<<TXT, A_txt>>, 2, 100, Jan)})
\* b.exe three times: at the top, in sub and in the quarantine; a huge a.txt in sub
TreeNested == TreeOf({File(<<B_exe>>, 1, 100, Jan), File(<<Sub, B_exe>>, 2, 100, Jan),
                      File(<<Sub, A_txt>>, 3, HugeSize + 1, Jan),
                      File(<<QuarantineName, B_exe>>, 4, 100, Jan)})
\* d as a file, and d as a directory
TreeDFile == TreeOf({File(<<D>>, 1, 100, Jan), File(<<A_txt>>, 2, 100, Jan)})
TreeDDir == TreeOf({File(<<D, A_txt>>, 1, 100, Jan)})
\* a folder whose _quarantine is a file
TreeQFile == TreeOf({File(<<QuarantineName>>, 1, 100, Jan), File(<<B_exe>>, 2, 100, Jan)})

InitTrees == {NoTree, TreeMixed, TreeBucketFile, TreeCollide, TreeNested,
              TreeDFile, TreeDDir, TreeQFile}

NoOp == [op |-> "none", folder |-> <<>>, snap |-> <<>>, raised |-> FALSE, ret |-> FALSE,
         pre |-> NoTree, moves |-> <<>>, events |-> <<>>, flag |-> FALSE,
         backups |-> <<>>, path |-> <<>>, i |-> 0,
         prebk |-> NoTree, prev |-> [op |-> "none", folder |-> <<>>, raised |-> FALSE]]
NoRoundTrip == [phase |-> "start", folder |-> <<>>, snap |-> <<>>, tree |-> NoTree, full |-> FALSE]

Init ==
  /\ fs \in [Folders -> InitTrees]
  /\ bk = NoTree
  /\ clock = 0
  /\ steps = 0
  /\ last = NoOp
  /\ rt = NoRoundTrip
  /\ quarantined = [f \in Folders |-> <<>>]
  /\ descending \in BOOLEAN

\* a second of the clock passes
Tick ==
  /\ clock < MaxClock
  /\ clock' = clock + 1
  /\ UNCHANGED <<fs, bk, steps, last, rt, quarantined, descending>>

\* what the operation before this one was
Before == [op |-> last.op, folder |-> last.folder, raised |-> last.raised]

\* a call of one of the organize functions on folder f
OrganizeCall(f, op, r) ==
  /\ fs' = [fs EXCEPT ![f] = r.tree]
  /\ last' = [NoOp EXCEPT !.op = op, !.folder = f, !.raised = r.raised, !.pre = fs[f],
                          !.moves = r.moves, !.flag = r.failed # {}, !.prebk = bk, !.prev = Before]
  /\ steps' = steps + 1
  /\ UNCHANGED <<bk, clock, quarantined, descending>>

OrganizeByExtension(f) ==
  \E r \in {organize_by_extension(fs[f], listdir(fs[f], descending))} :
    OrganizeCall(f, "organize_by_extension", r)
OrganizeByDate(f) ==
  \E r \in {organize_by_date(fs[f], listdir(fs[f], descending))} :
    OrganizeCall(f, "organize_by_date", r)
OrganizeBySize(f) ==
  \E r \in {organize_by_size(fs[f], listdir(fs[f], descending))} :
    OrganizeCall(f, "organize_by_size", r)

CreateBackup(f) ==
  \E r \in {create_backup(bk, fs[f], f, clock, descending)} :
    /\ bk' = r.bk
    /\ last' = [NoOp EXCEPT !.op = "create_backup", !.folder = f, !.snap = r.ret,
                            !.raised = r.raised, !.ret = r.ret, !.pre = fs[f],
                            !.flag = r.fallback, !.prebk = bk, !.prev = Before]
    /\ steps' = steps + 1
    /\ UNCHANGED <<fs, clock, quarantined, descending>>

Rollback(f, name) ==
  \E r \in {rollback_from_backup(bk, fs[f], name, descending)} :
    /\ fs' = [fs EXCEPT ![f] = r.tree]
    /\ last' = [NoOp EXCEPT !.op = "rollback_from_backup", !.folder = f, !.snap = name,
                            !.raised = r.raised, !.ret = r.ret, !.pre = fs[f],
                            !.flag = r.skipped # {}, !.prebk = bk, !.prev = Before]
    /\ steps' = steps + 1
    /\ UNCHANGED <<bk, clock, quarantined, descending>>

ScanAndQuarantine(f) ==
  \E r \in {scan_and_quarantine(fs[f], f, descending)} :
    LET out == [i \in 1..Len(r.moves) |-> r.moves[i].dst]
    IN /\ fs' = [fs EXCEPT ![f] = r.tree]
       /\ last' = [NoOp EXCEPT !.op = "scan_and_quarantine", !.folder = f,
                               !.raised = r.raised, !.ret = out, !.pre = fs[f],
                               !.moves = r.moves, !.flag = r.existed, !.prebk = bk, !.prev = Before]
       /\ quarantined' = [quarantined EXCEPT ![f] = @ \o out]
       /\ steps' = steps + 1
       /\ UNCHANGED <<bk, clock, descending>>

\* the user (not the program) deletes a file of the folder, or changes its content
DeleteFile(f, p) ==
  /\ IsFile(fs[f], p)
  /\ fs' = [fs EXCEPT ![f] = Remove(@, p)]
  /\ last' = [NoOp EXCEPT !.op = "delete", !.folder = f, !.pre = fs[f], !.prebk = bk, !.prev = Before]
  /\ steps' = steps + 1
  /\ UNCHANGED <<bk, clock, quarantined, descending>>
ModifyFile(f, p) ==
  /\ IsFile(fs[f], p)
  /\ fs' = [fs EXCEPT ![f] = Put(@, p, [@[p] EXCEPT !.data = 0, !.mtime = Feb])]
  /\ last' = [NoOp EXCEPT !.op = "modify", !.folder = f, !.pre = fs[f], !.prebk = bk, !.prev = Before]
  /\ steps' = steps + 1
  /\ UNCHANGED <<bk, clock, quarantined, descending>>

\* a click on "Organize by Extension / Size / Date" with folder f selected
OrganizeButton(f, op, mode) ==
  IF ~IsDir(fs[f], <<>>)
  THEN /\ last' = [NoOp EXCEPT !.op = op, !.folder = f, !.ret = "error", !.pre = fs[f],
                               !.prebk = bk, !.prev = Before]
       /\ steps' = steps + 1
       /\ UNCHANGED <<fs, bk, clock, quarantined, descending>>
  ELSE \E r \in {OrganizeClick(bk, fs[f], f, clock, listdir(fs[f], descending),
                               descending, mode)} :
         /\ fs' = [fs EXCEPT ![f] = r.tree]
         /\ bk' = r.bk
         /\ last' = [NoOp EXCEPT !.op = op, !.folder = f, !.snap = r.backup,
                                 !.raised = (r.message = "exception"), !.ret = r.message,
                                 !.pre = fs[f], !.moves = r.moves, !.events = r.events,
                                 !.flag = r.fallback,
                                 !.prebk = bk, !.prev = Before]
         /\ steps' = steps + 1
         /\ UNCHANGED <<clock, quarantined, descending>>
OrganizeExtBtn(f) == OrganizeButton(f, "organize_ext_btn", "ext")
OrganizeSizeBtn(f) == OrganizeButton(f, "organize_size_btn", "size")
OrganizeDateBtn(f) == OrganizeButton(f, "organize_date_btn", "date")

\* The functions of the program, called in any order on any folder
CallOrganizeByExtension ==
  \E f \in Folders : steps < MaxSteps /\ OrganizeByExtension(f) /\ UNCHANGED rt
CallOrganizeByDate ==
  \E f \in Folders : steps < MaxSteps /\ OrganizeByDate(f) /\ UNCHANGED rt
CallOrganizeBySize ==
  \E f \in Folders : steps < MaxSteps /\ OrganizeBySize(f) /\ UNCHANGED rt
CallCreateBackup ==
  \E f \in Folders : steps < MaxSteps /\ CreateBackup(f) /\ UNCHANGED rt
CallRollback ==
  \E f \in Folders, name \in DOMAIN bk \cup {MissingSnap} :
    steps < MaxSteps /\ Rollback(f, name) /\ UNCHANGED rt
CallScan ==
  \E f \in Folders : steps < MaxSteps /\ ScanAndQuarantine(f) /\ UNCHANGED rt

Next ==
  \/ Tick
  \/ CallOrganizeByExtension
  \/ CallOrganizeByDate
  \/ CallOrganizeBySize
  \/ CallCreateBackup
  \/ CallRollback
  \/ CallScan
Spec == Init /\ [][Next]_vars

\* The organize functions alone, run up to MaxRuns times from every initial tree
RunOrganizeByExtension ==
  \E f \in Folders : steps < MaxRuns /\ OrganizeByExtension(f) /\ UNCHANGED rt
RunOrganizeByDate ==
  \E f \in Folders : steps < MaxRuns /\ OrganizeByDate(f) /\ UNCHANGED rt
RunOrganizeBySize ==
  \E f \in Folders : steps < MaxRuns /\ OrganizeBySize(f) /\ UNCHANGED rt
NextOrg == RunOrganizeByExtension \/ RunOrganizeByDate \/ RunOrganizeBySize
SpecOrg == Init /\ [][NextOrg]_vars

\* Scans alone, up to MaxScans of them; after a scan the user may put a new
\* b.exe into the folder
RunScan ==
  \E f \in Folders : steps < MaxScans /\ ScanAndQuarantine(f) /\ UNCHANGED rt
DropFile ==
  /\ last.op = "scan_and_quarantine"
  /\ IsDir(fs[last.folder], <<>>)
  /\ ~Exists(fs[last.folder], <<B_exe>>)
  /\ fs' = [fs EXCEPT ![last.folder] = Put(@, <<B_exe>>, FileEntry(9, 100, Feb))]
  /\ last' = [NoOp EXCEPT !.op = "drop", !.folder = last.folder, !.pre = fs[last.folder],
                          !.prebk = bk, !.prev = Before]
  /\ UNCHANGED <<bk, clock, steps, rt, quarantined, descending>>
NextScan == RunScan \/ DropFile
SpecScan == Init /\ [][NextScan]_vars

\* The round trip: a backup of a folder, then up to MaxEdits deletions,
\* modifications and organize runs on that folder, then the rollback from that backup
EveryEntryCopied(t, snap) == \A p \in DOMAIN t : p \in DOMAIN snap /\ snap[p] = t[p]
RoundTripBackup ==
  \E f \in Folders :
    /\ rt.phase = "start"
    /\ CreateBackup(f)
    /\ rt' = [phase |-> "edit", folder |-> f, snap |-> last'.ret, tree |-> fs[f],
              full |-> ~last'.raised /\ EveryEntryCopied(fs[f], bk'[last'.ret])]
RoundTripDelete ==
  /\ rt.phase = "edit"
  /\ steps <= MaxEdits
  /\ \E p \in DOMAIN fs[rt.folder] : DeleteFile(rt.folder, p)
  /\ UNCHANGED rt
RoundTripModify ==
  /\ rt.phase = "edit"
  /\ steps <= MaxEdits
  /\ \E p \in DOMAIN fs[rt.folder] : ModifyFile(rt.folder, p)
  /\ UNCHANGED rt
RoundTripOrganizeByExtension ==
  rt.phase = "edit" /\ steps <= MaxEdits /\ OrganizeByExtension(rt.folder) /\ UNCHANGED rt
RoundTripOrganizeByDate ==
  rt.phase = "edit" /\ steps <= MaxEdits /\ OrganizeByDate(rt.folder) /\ UNCHANGED rt
RoundTripOrganizeBySize ==
  rt.phase = "edit" /\ steps <= MaxEdits /\ OrganizeBySize(rt.folder) /\ UNCHANGED rt
RoundTripRollback ==
  /\ rt.phase = "edit"
  /\ Rollback(rt.folder, rt.snap)
  /\ rt' = [rt EXCEPT !.phase = "done"]
NextRT ==
  \/ RoundTripBackup
  \/ RoundTripDelete
  \/ RoundTripModify
  \/ RoundTripOrganizeByExtension
  \/ RoundTripOrganizeByDate
  \/ RoundTripOrganizeBySize
  \/ RoundTripRollback
SpecRT == Init /\ [][NextRT]_vars

\* The File Organization page: clicks on the organize buttons as the clock runs
ClickOrganizeExt ==
  \E f \in Folders : steps < MaxClicks /\ OrganizeExtBtn(f) /\ UNCHANGED rt
ClickOrganizeSize ==
  \E f \in Folders : steps < MaxClicks /\ OrganizeSizeBtn(f) /\ UNCHANGED rt
ClickOrganizeDate ==
  \E f \in Folders : steps < MaxClicks /\ OrganizeDateBtn(f) /\ UNCHANGED rt
NextUI == Tick \/ ClickOrganizeExt \/ ClickOrganizeSize \/ ClickOrganizeDate
\* the second folder is missing or holds d/a.txt
InitUI == Init /\ fs[FolderB] \in {NoTree, TreeDDir}
SpecUI == InitUI /\ [][NextUI]_vars

\* organize_by_size on folders of two files of every size around the limits
Sizes == {0, SmallLimit - 1, SmallLimit, SmallLimit + 1,
          MediumLimit - 1, MediumLimit, MediumLimit + 1, HugeSize}
SizeTrees == {TreeOf({File(<<A_txt>>, 1, s1, Jan), File(<<B_exe>>, 2, s2, Feb)}) :
                s1, s2 \in Sizes}
InitSize ==
  /\ fs \in [Folders -> SizeTrees \cup {NoTree}]
  /\ fs[FolderB] = NoTree
  /\ fs[FolderA] # NoTree
  /\ bk = NoTree
  /\ clock = 0
  /\ steps = 0
  /\ last = NoOp
  /\ rt = NoRoundTrip
  /\ quarantined = [f \in Folders |-> <<>>]
  /\ descending \in BOOLEAN
SizeOrganize == \E f \in {FolderA} : steps < MaxRuns /\ OrganizeBySize(f) /\ UNCHANGED rt
NextSize == SizeOrganize
SpecSize == InitSize /\ [][NextSize]_vars

\* The Rollback button of the page, with backups taken of four folders:
\* /x/d 1, /y/d_1, /z/d_1 and /x/d_1_x
MaxPage == 3
FolderC == <<<<"z">>, <<"d","_","1">>>>
FolderE == <<<<"x">>, <<"d","_","1","_","x">>>>
PageFolders == {FolderA, FolderB, FolderC, FolderE}
InitPage ==
  /\ fs = (FolderA :> TreeMixed) @@ (FolderB :> TreeDDir) @@
          (FolderC :> TreeDFile) @@ (FolderE :> TreeCollide)
  /\ bk = NoTree
  /\ clock = 0
  /\ steps = 0
  /\ last = NoOp
  /\ rt = NoRoundTrip
  /\ quarantined = [f \in Folders |-> <<>>]
  /\ descending \in BOOLEAN
PageRun(f, op, rollback_btn, confirm_btn) ==
  \E r \in {RollbackHandler(bk, fs[f], f, rollback_btn, confirm_btn, descending)} :
    /\ fs' = [fs EXCEPT ![f] = r.tree]
    /\ last' = [NoOp EXCEPT !.op = op, !.folder = f, !.ret = r.message, !.pre = fs[f],
                            !.events = r.events, !.backups = r.backups,
                            !.flag = r.offered, !.prebk = bk, !.prev = Before]
    /\ steps' = steps + 1
    /\ UNCHANGED <<bk, clock, rt, quarantined, descending>>
\* a click on "Rollback" with folder f selected
ClickRollback == \E f \in PageFolders : steps < MaxPage /\ PageRun(f, "rollback_btn", TRUE, FALSE)
\* a click on "Confirm Rollback", which the run before has drawn
ClickConfirm ==
  /\ last.op = "rollback_btn"
  /\ last.flag
  /\ PageRun(last.folder, "confirm_rollback", FALSE, TRUE)
PageBackup == \E f \in PageFolders : steps < MaxPage /\ CreateBackup(f) /\ UNCHANGED rt
NextPage == Tick \/ PageBackup \/ ClickRollback \/ ClickConfirm
SpecPage == InitPage /\ [][NextPage]_vars

\* is_suspicious, local_scan_report and scan_and_quarantine on folders that
\* hold one file name in one, two or three directories
MaxCalls == 1
Stems == {<<"a">>, <<"a",".","t","x","t">>, <<".","s","e","c","r","e","t">>, <<"A","-","1">>}
UpperExts == {<<".","E","X","E">>, <<".","B","a","t">>, <<".","J","S">>}
OtherExts == {<<>>, <<".">>, <<".","t","x","t">>, <<".","e","x">>, <<".","e","x","e","s">>,
              <<".","e","x","e","_">>}
FileNamesTried == {s \o x : s \in Stems, x \in suspicious_exts \cup UpperExts \cup OtherExts}
Places == {{<<>>}, {<<>>, <<Sub>>}, {<<>>, <<Sub>>, <<D>>}}
NameTrees ==
  {TreeOf({File(Append(dir, n), 1, s, Jan) : dir \in dirs}) :
     n \in FileNamesTried, s \in {100, HugeSize, HugeSize + 1}, dirs \in Places}
InitNames ==
  /\ fs \in [Folders -> NameTrees \cup {NoTree}]
  /\ fs[FolderB] = NoTree
  /\ fs[FolderA] # NoTree
  /\ bk = NoTree
  /\ clock = 0
  /\ steps = 0
  /\ last = NoOp
  /\ rt = NoRoundTrip
  /\ quarantined = [f \in Folders |-> <<>>]
  /\ descending \in BOOLEAN
CallIsSuspicious ==
  \E p \in FilePaths(fs[FolderA]) :
    /\ steps < MaxCalls
    /\ last' = [NoOp EXCEPT !.op = "is_suspicious", !.folder = FolderA, !.path = p,
                            !.ret = is_suspicious(Basename(p), fs[FolderA][p]),
                            !.pre = fs[FolderA], !.prebk = bk, !.prev = Before]
    /\ steps' = steps + 1
    /\ UNCHANGED <<fs, bk, clock, rt, quarantined, descending>>
CallLocalScanReport ==
  /\ steps < MaxCalls
  /\ last' = [NoOp EXCEPT !.op = "local_scan_report", !.folder = FolderA,
                          !.ret = local_scan_report(fs[FolderA], FolderA, descending),
                          !.pre = fs[FolderA], !.prebk = bk, !.prev = Before]
  /\ steps' = steps + 1
  /\ UNCHANGED <<fs, bk, clock, rt, quarantined, descending>>
NamesScan == steps < MaxCalls /\ ScanAndQuarantine(FolderA) /\ UNCHANGED rt
NextNames == CallIsSuspicious \/ CallLocalScanReport \/ NamesScan
SpecNames == InitNames /\ [][NextNames]_vars

\* The search for a free name in _quarantine, one iteration of the loop at a
\* time: the folder holds one suspicious file, _quarantine any of the first
\* MaxChain + 1 names of its collision chain and the name with _2
MaxChain == 3
RECURSIVE Chain(_, _)
Chain(n, k) == IF k = 0 THEN n ELSE NextCandidate(Chain(n, k - 1), k)
LoopNames == {B_exe, Hidden, <<"a",".","t",".","j","s">>}
LoopTrees ==
  {TreeOf({File(<<n>>, 1, 100, Jan)} \cup {File(<<QuarantineName, c>>, 2, 100, Jan) : c \in held}) :
     n \in LoopNames,
     held \in UNION {SUBSET ({Chain(m, k) : k \in 0..MaxChain} \cup {NextCandidate(m, 2)}) :
                      m \in LoopNames}}
InitLoop ==
  /\ fs \in [Folders -> LoopTrees \cup {NoTree}]
  /\ fs[FolderB] = NoTree
  /\ fs[FolderA] # NoTree
  /\ bk = NoTree
  /\ clock = 0
  /\ steps = 0
  /\ last = NoOp
  /\ rt = NoRoundTrip
  /\ quarantined = [f \in Folders |-> <<>>]
  /\ descending \in BOOLEAN
\* os.makedirs(quarantine), the walk reaches a suspicious file: dest = quarantine / f, i = 1
StartSearch ==
  /\ last.op = "none"
  /\ makedirs_ok(fs[FolderA], <<QuarantineName>>)
  /\ \E p \in {q \in FilePaths(fs[FolderA]) :
                  is_suspicious(Basename(q), fs[FolderA][q]) /\ ~Skipped(FolderA, Parent(q))} :
       /\ fs' = [fs EXCEPT ![FolderA] = makedirs(@, <<QuarantineName>>)]
       /\ last' = [NoOp EXCEPT !.op = "search", !.folder = FolderA, !.pre = fs[FolderA],
                               !.snap = p, !.path = <<QuarantineName, Basename(p)>>, !.i = 1,
                               !.prebk = bk, !.prev = Before]
  /\ UNCHANGED <<bk, clock, steps, rt, quarantined, descending>>
\* dest exists: one iteration of the loop
LoopStep ==
  /\ last.op = "search"
  /\ Exists(fs[FolderA], last.path)
  /\ last' = [last EXCEPT !.path = <<QuarantineName, NextCandidate(Basename(last.path), last.i)>>,
                          !.i = last.i + 1]
  /\ UNCHANGED <<fs, bk, clock, steps, rt, quarantined, descending>>
\* dest does not exist: the loop ends, shutil.move(p, dest), moved.append(dest)
LoopExit ==
  /\ last.op = "search"
  /\ ~Exists(fs[FolderA], last.path)
  /\ \E mv \in {ShutilMove(fs[FolderA], last.snap, last.path)} :
       /\ fs' = [fs EXCEPT ![FolderA] = mv.tree]
       /\ last' = [last EXCEPT !.op = "moved", !.moves = <<mv>>, !.ret = <<mv.dst>>]
  /\ UNCHANGED <<bk, clock, steps, rt, quarantined, descending>>
NextLoop == StartSearch \/ LoopStep \/ LoopExit
\* the interpreter keeps running the function it has been called with
SpecLoop == InitLoop /\ [][NextLoop]_vars /\ WF_vars(NextLoop)

---------------------------------------------------------------------------
(* Properties                                                              *)

OrganizeButtons == {"organize_ext_btn", "organize_size_btn", "organize_date_btn"}
OrganizeOps == {"organize_by_extension", "organize_by_date", "organize_by_size"}
EXE == <<"E","X","E">>

\* C1: in every click on an organize button with an existing folder, every move
\* of the organize function comes after a create_backup call on that same folder
\* that has returned; create_backup is the first thing the click does, the
\* folder changes only after it has returned, and a snapshot that copytree
\* wrote holds the folder as it was before the first move.
BackupBeforeOrganize ==
  last.op \in OrganizeButtons /\ IsDir(last.pre, <<>>) =>
    /\ last.events # <<>>
    /\ last.events[1].ev = "create_backup"
    /\ last.events[1].folder = last.folder
    /\ \A i \in 1..Len(last.events) :
         last.events[i].ev = "move" =>
           \E j \in 1..(i - 1) : /\ last.events[j].ev = "create_backup"
                                 /\ last.events[j].folder = last.events[i].folder
                                 /\ last.events[j].returned
    /\ fs[last.folder] # last.pre => last.events[1].returned /\ last.snap \in DOMAIN bk
    /\ last.moves # <<>> /\ ~last.flag => bk[last.snap] = last.pre
BackupBeforeOrganizeWitness ==
  /\ last.op \in OrganizeButtons
  /\ last.ret = "success"
  /\ Len(last.moves) >= 2
  /\ last.snap \in DOMAIN bk
  /\ bk[last.snap] = last.pre
  /\ fs[last.folder] # last.pre

\* C2: when create_backup copied every entry of the folder, the rollback from
\* that snapshot after deletions, modifications and organize runs returns True
\* and every file of the folder at backup time is again at its path with its
\* backed-up content.
RoundTripRestores ==
  rt.phase = "done" /\ rt.full =>
    /\ last.ret = TRUE
    /\ ~last.raised
    /\ \A p \in FilePaths(rt.tree) :
         IsFile(fs[rt.folder], p) /\ fs[rt.folder][p] = rt.tree[p]
RoundTripRestoresWitness ==
  /\ rt.phase = "done"
  /\ rt.full
  /\ last.ret = TRUE
  /\ \E p, q \in FilePaths(rt.tree) :
       /\ p \notin DOMAIN last.pre
       /\ q \in DOMAIN last.pre /\ last.pre[q] # rt.tree[q]
       /\ fs[rt.folder][p] = rt.tree[p]
       /\ fs[rt.folder][q] = rt.tree[q]

\* C3: an organize operation overwrites and deletes no file: every file under
\* the folder before the call is under it afterwards with its content.
OrganizeKeepsEveryFile ==
  last.op \in OrganizeOps =>
    /\ \A i \in 1..Len(last.moves) : ~last.moves[i].replaced
    /\ \A p \in FilePaths(last.pre) :
         \E q \in FilePaths(fs[last.folder]) : fs[last.folder][q] = last.pre[p]

\* C4: an organize operation on an existing folder returns normally also when
\* a bucket folder cannot be created, and when no move failed no file is left
\* at the top level.
OrganizeSwallowsFailures ==
  last.op \in OrganizeOps /\ IsDir(last.pre, <<>>) =>
    /\ ~last.raised
    /\ ~last.flag => FileNames(fs[last.folder], <<>>) = {}

\* C5: a rollback from an existing snapshot returns True without an exception,
\* and restores every entry below the snapshot's root that meets no entry of
\* the other kind at its path or above it.
KindConflict(snap, t, p) ==
  \E q \in Prefixes(p) : q \in DOMAIN t /\ q \in DOMAIN snap /\ t[q].kind # snap[q].kind
RollbackIsBestEffort ==
  last.op = "rollback_from_backup" /\ last.snap \in DOMAIN bk =>
    /\ ~last.raised
    /\ last.ret = TRUE
    /\ \A p \in DOMAIN bk[last.snap] \ {<<>>} :
         ~KindConflict(bk[last.snap], last.pre, p) =>
           /\ p \in DOMAIN fs[last.folder]
           /\ fs[last.folder][p] = bk[last.snap][p]

\* C6: a rollback from a snapshot that does not exist returns False and changes
\* nothing; create_backup, the organize functions and scan_and_quarantine on a
\* folder that does not exist fail and create nothing, in the folder and in
\* the backup root.
NotFoundTouchesNothing ==
  /\ last.op = "rollback_from_backup" /\ last.snap \notin DOMAIN last.prebk =>
       last.ret = FALSE /\ fs[last.folder] = last.pre /\ bk = last.prebk
  /\ last.op \in OrganizeOps \cup {"create_backup", "scan_and_quarantine"}
       /\ last.pre = NoTree =>
       last.raised /\ fs[last.folder] = NoTree /\ bk = last.prebk

\* C7: no operation adds, replaces or removes an entry of a snapshot that
\* exists, and create_backup returns a snapshot directory that did not exist.
SnapshotsImmutable ==
  /\ \A s \in DOMAIN last.prebk : s \in DOMAIN bk /\ bk[s] = last.prebk[s]
  /\ last.op = "create_backup" => last.ret \notin DOMAIN last.prebk

\* C8: every move of a scan goes to a path inside _quarantine that did not
\* exist immediately before the move, no file of _quarantine is replaced, and
\* the destinations a folder's scans have returned are pairwise distinct.
QuarantineNeverOverwrites ==
  /\ last.op = "scan_and_quarantine" =>
       /\ ~last.flag
       /\ \A i \in 1..Len(last.moves) :
            /\ ~last.moves[i].replaced
            /\ Len(last.moves[i].dst) = 2
            /\ last.moves[i].dst[1] = QuarantineName
            /\ last.moves[i].dst \notin DOMAIN last.pre
       /\ \A p \in FilePaths(last.pre) :
            IsUnder(p, <<QuarantineName>>) =>
              p \in DOMAIN fs[last.folder] /\ fs[last.folder][p] = last.pre[p]
  /\ \A f \in Folders : \A i, j \in 1..Len(quarantined[f]) :
       i # j => quarantined[f][i] # quarantined[f][j]
QuarantineNeverOverwritesWitness ==
  /\ last.op = "scan_and_quarantine"
  /\ last.prev.op = "drop"
  /\ last.ret = <<<<QuarantineName, <<"b","_","1","_","2","_","3",".","e","x","e">>>>>>
  /\ Len(quarantined[last.folder]) = 4
  /\ \E i, j \in 1..3 :
       /\ quarantined[last.folder][i] = <<QuarantineName, <<"b","_","1",".","e","x","e">>>>
       /\ quarantined[last.folder][j] = <<QuarantineName, <<"b","_","1","_","2",".","e","x","e">>>>
  /\ fs[last.folder][<<QuarantineName, B_exe>>] = TreeNested[<<QuarantineName, B_exe>>]

\* C9: a scan that does not raise moves exactly the suspicious files outside
\* the skipped subtrees: each of them is in _quarantine afterwards, every other
\* file is where it was, and one destination is returned per moved file.
ScanTargets(folder, t) ==
  {p \in FilePaths(t) : is_suspicious(Basename(p), t[p]) /\ ~Skipped(folder, Parent(p))}
ScanMovesExactlySuspicious ==
  last.op = "scan_and_quarantine" /\ ~last.raised =>
    LET targets == ScanTargets(last.folder, last.pre)
        post == fs[last.folder]
    IN /\ \A p \in targets :
            /\ p \notin DOMAIN post
            /\ \E i \in 1..Len(last.moves) :
                 /\ last.moves[i].src = p
                 /\ last.moves[i].dst = last.ret[i]
                 /\ Parent(last.ret[i]) = <<QuarantineName>>
                 /\ IsFile(post, last.ret[i])
                 /\ post[last.ret[i]] = last.pre[p]
       /\ \A p \in FilePaths(last.pre) \ targets :
            p \in DOMAIN post /\ post[p] = last.pre[p]
       /\ Len(last.ret) = Cardinality(targets)
ScanMovesExactlySuspiciousWitness ==
  /\ last.op = "scan_and_quarantine"
  /\ last.pre = TreeMixed
  /\ Len(last.ret) = 2
  /\ fs[last.folder][<<A_txt>>] = TreeMixed[<<A_txt>>]
  /\ IsFile(fs[last.folder], <<QuarantineName, B_exe>>)
  /\ IsFile(fs[last.folder], <<QuarantineName, Hidden>>)
  /\ ~Exists(fs[last.folder], <<B_exe>>)
  /\ ~Exists(fs[last.folder], <<Hidden>>)

\* C10: organize_by_extension run directly after organize_by_extension on the
\* same folder moves no file and leaves the folder's tree as the first run
\* left it (no new subfolder, no deeper nesting).
OrganizeByExtensionIdempotent ==
  /\ last.op = "organize_by_extension"
  /\ last.prev.op = "organize_by_extension"
  /\ last.prev.folder = last.folder
  => /\ last.moves = <<>>
     /\ fs[last.folder] = last.pre
OrganizeByExtensionIdempotentWitness ==
  /\ last.op = "organize_by_extension"
  /\ last.prev.op = "organize_by_extension"
  /\ last.prev.folder = last.folder
  /\ ~last.raised
  /\ IsFile(last.pre, <<EXE, B_exe>>)
  /\ IsFile(last.pre, <<TXT, A_txt>>)
  /\ fs[last.folder] = last.pre

\* C11: organize_by_size moves a top-level file of s bytes into Small_0-10MB
\* exactly when s < 10,000,000, into Medium_10-100MB exactly when
\* 10,000,000 <= s < 100,000,000 and into Large_100MB_plus exactly when
\* s >= 100,000,000.
SizeBoundaries ==
  last.op = "organize_by_size" =>
    /\ \A i \in 1..Len(last.moves) :
         LET s == last.pre[last.moves[i].src].size
             b == last.moves[i].dst[1]
         IN /\ b \in {SmallBucket, MediumBucket, LargeBucket}
            /\ b = SmallBucket <=> s < 10000000
            /\ b = MediumBucket <=> 10000000 <= s /\ s < 100000000
            /\ b = LargeBucket <=> s >= 100000000
            /\ fs[last.folder][last.moves[i].dst] = last.pre[last.moves[i].src]
    /\ ~last.raised /\ ~last.flag =>
         \A n \in FileNames(last.pre, <<>>) :
           \E i \in 1..Len(last.moves) : last.moves[i].src = <<n>>
SizeBoundariesWitness ==
  /\ last.op = "organize_by_size"
  /\ last.pre[<<A_txt>>].size = 10000000
  /\ last.pre[<<B_exe>>].size = 100000000
  /\ IsFile(fs[last.folder], <<MediumBucket, A_txt>>)
  /\ IsFile(fs[last.folder], <<LargeBucket, B_exe>>)

\* the YYYYMMDD_HHMMSS at the end of a snapshot's name
Stamp(name) == SubSeq(name, Len(name) - 14, Len(name))

\* C12: the list of backups offered for a folder is in descending order of
\* the snapshots' timestamps, the most recent first.
BackupsMostRecentFirst ==
  last.op = "rollback_btn" =>
    \A i, j \in 1..Len(last.backups) :
      i < j => ~StrLess(Stamp(last.backups[i]), Stamp(last.backups[j]))

\* C19: when backups exist for the selected folder, a click on "Rollback"
\* followed by a click on "Confirm Rollback" invokes rollback_from_backup on
\* the selected folder and ends with the success or the failure message.
ConfirmInvokesRollback ==
  last.op = "confirm_rollback" =>
    /\ \E i \in 1..Len(last.events) :
         /\ last.events[i].ev = "rollback_from_backup"
         /\ last.events[i].folder = last.folder
    /\ last.ret \in {"success", "failure"}

\* C20: every backup offered for a folder is a snapshot create_backup took of
\* that folder: it holds nothing but entries of the folder.
OffersOnlyOwnSnapshots ==
  last.op = "rollback_btn" =>
    \A i \in 1..Len(last.backups) :
      \A p \in DOMAIN bk[last.backups[i]] :
        p \in DOMAIN fs[last.folder] /\ fs[last.folder][p] = bk[last.backups[i]][p]

\* C13: after a click on "Organize by Date" every file that was a direct
\* child of the folder is at <YYYY-MM of its modification time>/<its name>,
\* the subfolders created are exactly the months of those files, and the
\* snapshot of the click equals the folder's tree before the organize started.
OrganizeByDateEndToEnd ==
  last.op = "organize_date_btn" /\ IsDir(last.pre, <<>>) =>
    LET post == fs[last.folder]
        months == {DateBucket(last.pre[<<n>>]) : n \in FileNames(last.pre, <<>>)}
    IN /\ \A n \in FileNames(last.pre, <<>>) :
            /\ IsFile(post, <<DateBucket(last.pre[<<n>>]), n>>)
            /\ post[<<DateBucket(last.pre[<<n>>]), n>>] = last.pre[<<n>>]
       /\ DirNames(post, <<>>) \ DirNames(last.pre, <<>>) = months \ DirNames(last.pre, <<>>)
       /\ last.snap \in DOMAIN bk
       /\ bk[last.snap] = last.pre

\* the extension of a file name, in lower case
LowerExt(name) == StrLower(SplitExt(name))

\* C14: is_suspicious is true for every file whose extension, compared
\* case-insensitively, is one of exe, bat, vbs, js, scr, cmd, dll, com, pif,
\* and false for every file with another extension, at most 500 MiB, whose
\* name does not start with a dot.
IsSuspiciousByExtension ==
  last.op = "is_suspicious" =>
    LET name == Basename(last.path)
        e == last.pre[last.path]
    IN /\ LowerExt(name) \in suspicious_exts => last.ret = TRUE
       /\ LowerExt(name) \notin suspicious_exts /\ e.size <= 524288000
            /\ name[1] # "." => last.ret = FALSE
IsSuspiciousByExtensionWitness ==
  /\ last.op = "is_suspicious"
  /\ Basename(last.path) = <<"a",".","E","X","E">>
  /\ last.pre[last.path].size = 100
  /\ last.ret = TRUE

\* C15: local_scan_report gives each file one status: Hidden if its name
\* starts with a dot, else Dangerous if the name has more than one dot and a
\* suspicious extension, else Suspicious if the extension is suspicious, else
\* Clean.
ReportPrecedence ==
  last.op = "local_scan_report" =>
    /\ Len(last.ret) = Cardinality({p \in FilePaths(last.pre) : ~Skipped(last.folder, Parent(p))})
    /\ \A i \in 1..Len(last.ret) :
         LET f == last.ret[i].name
         IN /\ IsFile(last.pre, last.ret[i].path)
            /\ f = Basename(last.ret[i].path)
            /\ last.ret[i].status =
                 IF f[1] = "." THEN "Hidden"
                 ELSE IF CountChar(f, ".") > 1 /\ LowerExt(f) \in suspicious_exts THEN "Dangerous"
                 ELSE IF LowerExt(f) \in suspicious_exts THEN "Suspicious"
                 ELSE "Clean"
ReportPrecedenceWitness ==
  /\ last.op = "local_scan_report"
  /\ Len(last.ret) >= 1
  /\ last.ret[1].name = <<".","s","e","c","r","e","t",".","e","x","e">>
  /\ last.ret[1].status = "Hidden"

\* C16: when k suspicious files of one name are moved into a _quarantine that
\* holds none of the names, their destinations are the name itself and the
\* name with _1, _2, ..., _(k-1) before its extension.
SingleCounterNames ==
  last.op = "scan_and_quarantine" /\ ~last.raised
    /\ ~Exists(last.pre, <<QuarantineName>>) =>
    \A n \in {Basename(p) : p \in ScanTargets(last.folder, last.pre)} :
      LET k == Cardinality({p \in ScanTargets(last.folder, last.pre) : Basename(p) = n})
      IN {last.moves[i].dst : i \in {j \in 1..Len(last.moves) : Basename(last.moves[j].src) = n}}
           = {<<QuarantineName, n>>} \cup
             {<<QuarantineName, Stem(n) \o <<"_">> \o IntStr(c) \o Suffix(n)>> : c \in 1..(k - 1)}

\* C17: an organize operation moves only files that are direct children of
\* the folder, each into a bucket directly below the folder; every directory
\* stays where it is, and every file that lies in a subdirectory stays at its
\* path, with its content unless a file moved into the bucket took its place.
OrganizeTopLevelOnly ==
  last.op \in OrganizeOps =>
    /\ \A i \in 1..Len(last.moves) :
         /\ Len(last.moves[i].src) = 1
         /\ IsFile(last.pre, last.moves[i].src)
         /\ Len(last.moves[i].dst) = 2
         /\ Basename(last.moves[i].dst) = Basename(last.moves[i].src)
    /\ \A p \in DOMAIN last.pre :
         /\ IsDir(last.pre, p) => IsDir(fs[last.folder], p)
         /\ IsFile(last.pre, p) /\ Len(p) >= 2 =>
              /\ IsFile(fs[last.folder], p)
              /\ \/ fs[last.folder][p] = last.pre[p]
                 \/ \E i \in 1..Len(last.moves) : last.moves[i].dst = p
OrganizeTopLevelOnlyWitness ==
  /\ last.op \in OrganizeOps
  /\ last.pre = TreeNested
  /\ Len(last.moves) = 1
  /\ last.moves[1].src = <<B_exe>>
  /\ fs[last.folder][<<Sub, B_exe>>] = TreeNested[<<Sub, B_exe>>]
  /\ fs[last.folder][<<Sub, A_txt>>] = TreeNested[<<Sub, A_txt>>]
  /\ fs[last.folder][<<QuarantineName, B_exe>>] = TreeNested[<<QuarantineName, B_exe>>]

\* C18: no scan moves a file that lies in _quarantine, and a scan directly
\* after a scan of the same folder moves nothing, returns the empty list and
\* leaves the folder's tree as it was.
NoRequarantine ==
  last.op = "scan_and_quarantine" =>
    /\ \A i \in 1..Len(last.moves) : ~IsUnder(last.moves[i].src, <<QuarantineName>>)
    /\ last.prev.op = "scan_and_quarantine" /\ last.prev.folder = last.folder =>
         /\ last.moves = <<>>
         /\ last.ret = <<>>
         /\ fs[last.folder] = last.pre
NoRequarantineWitness ==
  /\ last.op = "scan_and_quarantine"
  /\ last.prev.op = "scan_and_quarantine"
  /\ last.prev.folder = last.folder
  /\ ~last.raised
  /\ IsFile(last.pre, <<QuarantineName, B_exe>>)
  /\ IsFile(last.pre, <<QuarantineName, Hidden>>)
  /\ last.ret = <<>>
  /\ fs[last.folder] = last.pre

\* C21: the search for a free destination name ends: it makes at most one
\* iteration per entry of _quarantine, it ends at the name the scan uses, and
\* the file is moved there.
SearchTerminates ==
  /\ [](last.op = "search" =>
          last.i <= Cardinality(ChildNames(fs[FolderA], <<QuarantineName>>)) + 1)
  /\ [](last.op = "moved" =>
          /\ last.ret = <<<<QuarantineName, FreeDest(makedirs(last.pre, <<QuarantineName>>),
                                                     Basename(last.snap), 1)>>>>
          /\ IsFile(fs[FolderA], last.ret[1]))
  /\ <>(last.op = "moved")
SearchTerminatesWitness ==
  /\ last.op = "moved"
  /\ last.i = MaxChain + 2
  /\ last.snap = <<B_exe>>
  /\ last.ret = <<<<QuarantineName, Chain(B_exe, MaxChain + 1)>>>>

=============================================================================
